---- MODULE Spec2Model ----
(***************************************************************************)
(* Volume spike alerts (src/volume_alert.py): the per-bucket baseline walk *)
(* (compute_bucket_averages), the spike detector (check_recent_spikes),    *)
(* the run over the configured instruments (run_volume_check) and the      *)
(* Telegram notifier (send_telegram_alert).                                *)
(*                                                                         *)
(* Time: an aware instant is a number of minutes since 00:00 UTC of day 0, *)
(* and day 0 is a Monday.  A candle's "time" string is kept broken down    *)
(* as the provider writes it (date, HH, MM, SS and the digits after the    *)
(* decimal point); strptime, astimezone and strftime are computed on it.   *)
(* Volumes and prices are integers; averages, thresholds and multipliers   *)
(* are exact fractions [num, den] where the code uses floats.              *)
(***************************************************************************)
EXTENDS Integers, Sequences, FiniteSets, TLC

\* ---------------------------------------------------------------- config
BUCKET_MINUTES == 60
TRADING_DAYS_FOR_AVERAGE == 21
max_lookback == 60
\* THRESHOLD_MULTIPLIER = 0.1, as the fraction THRESHOLD_NUM / THRESHOLD_DEN
THRESHOLD_NUM == 1
THRESHOLD_DEN == 10
\* now_utc - timedelta(minutes=45)
WINDOW_MINUTES == 45
\* pytz Asia/Kolkata: UTC+05:30, no daylight saving
IST_OFFSET == 330
SKIP_WEEKENDS == TRUE
ENABLE_TELEGRAM_ALERTS == TRUE
SELECTED_INSTRUMENTS == <<"XAUUSD", "NAS100", "US30">>
INSTRUMENTS == [XAUUSD |-> "XAU_USD", NAS100 |-> "NAS100_USD", US30 |-> "US30_USD"]

DAY == 24 * 60

\* ------------------------------------------------------------- utilities
\* date.weekday() in [5, 6]; day 0 is a Monday
is_weekend(date) == (date % 7) \in {5, 6}

\* The digits after the decimal point of a "time" string, e.g.
\* <<0,0,0,0,0,0,0,0,0>> for "....000000000Z"; <<>> when there is no ".".
ZeroTail(frac) ==
    /\ Len(frac) >= 3
    /\ \A i \in (Len(frac) - 2)..Len(frac) : frac[i] = 0

RECURSIVE DigitsValue(_, _)
\* value of the digits ds read as a number padded on the right to n digits
DigitsValue(ds, n) ==
    IF n = 0 THEN 0
    ELSE (IF Len(ds) >= 1 THEN ds[1] ELSE 0) * (10 ^ (n - 1))
         + DigitsValue(IF Len(ds) >= 1 THEN Tail(ds) ELSE ds, n - 1)

\* datetime.strptime(s, "%Y-%m-%dT%H:%M:%S.%f000Z"): %f takes 1 to 6 digits
\* and the literal 000Z must follow, so the fraction is 4 to 9 digits long
\* and ends in 000.
StrptimeMicro(ts) ==
    IF Len(ts.frac) \in 4..9 /\ ZeroTail(ts.frac)
    THEN [ok |-> TRUE,
          dt |-> [date |-> ts.date, hour |-> ts.hh, minute |-> ts.mm,
                  second |-> ts.ss,
                  microsecond |-> DigitsValue(SubSeq(ts.frac, 1, Len(ts.frac) - 3), 6)]]
    ELSE [ok |-> FALSE]

\* datetime.strptime(s, "%Y-%m-%dT%H:%M:%S.000Z"): the fraction is exactly 000
StrptimeMilli(ts) ==
    IF ts.frac = <<0, 0, 0>>
    THEN [ok |-> TRUE,
          dt |-> [date |-> ts.date, hour |-> ts.hh, minute |-> ts.mm,
                  second |-> ts.ss, microsecond |-> 0]]
    ELSE [ok |-> FALSE]

\* try: strptime(first format) except ValueError: strptime(second format);
\* ok = FALSE is the ValueError of the second strptime, which nothing catches
ParseTime(ts) ==
    IF StrptimeMicro(ts).ok THEN StrptimeMicro(ts) ELSE StrptimeMilli(ts)

\* t_utc.replace(tzinfo=UTC).astimezone(IST)
ToIST(dt) ==
    LET m == dt.hour * 60 + dt.minute + IST_OFFSET
    IN  [date |-> dt.date + (m \div DAY),
         hour |-> (m % DAY) \div 60,
         minute |-> m % 60,
         second |-> dt.second,
         microsecond |-> dt.microsecond]

\* dt.strftime('%I:%M %p')
StrfTime12(dt) ==
    [I |-> IF dt.hour % 12 = 0 THEN 12 ELSE dt.hour % 12,
     M |-> dt.minute,
     p |-> IF dt.hour < 12 THEN "AM" ELSE "PM"]

\* dt + timedelta(minutes=n), n >= 0
PlusMinutes(dt, n) ==
    LET m == dt.hour * 60 + dt.minute + n
    IN  [dt EXCEPT !.date = dt.date + (m \div DAY),
                   !.hour = (m % DAY) \div 60,
                   !.minute = m % 60]

\* A faulty variant of get_time_bucket: the minute of the
\* timestamp is kept in the label instead of the bucket's first minute.
get_time_bucket_unfloored(dt_ist) ==
    LET bucket_start == [dt_ist EXCEPT !.second = 0, !.microsecond = 0]
        bucket_end == PlusMinutes(bucket_start, BUCKET_MINUTES)
    IN  [start |-> StrfTime12(bucket_start), end |-> StrfTime12(bucket_end)]

get_time_bucket(dt_ist) ==
    LET bucket_start_minute == (dt_ist.minute \div BUCKET_MINUTES) * BUCKET_MINUTES
        bucket_start == [dt_ist EXCEPT !.minute = bucket_start_minute,
                                       !.second = 0, !.microsecond = 0]
        bucket_end == PlusMinutes(bucket_start, BUCKET_MINUTES)
    IN  [start |-> StrfTime12(bucket_start), end |-> StrfTime12(bucket_end)]

\* A faulty variant of IsComplete: the flag is not looked at.
IsCompleteAlways(c) == TRUE

\* c.get("complete", True): a candle without the key counts as complete
IsComplete(c) == c.complete # "false"

get_sentiment(c) ==
    IF c.c > c.o THEN "up" ELSE IF c.c < c.o THEN "down" ELSE "flat"


\* ------------------------------------------------------------- provider
\* The provider's candle at instant t (seconds 00), with the fraction digits
\* frac, the complete flag, the volume and the mid open and close prices.
Candle(t, frac, complete, volume, o, c) ==
    [time |-> [date |-> t \div DAY, hh |-> (t % DAY) \div 60, mm |-> t % 60,
               ss |-> 0, frac |-> frac],
     complete |-> complete, volume |-> volume, o |-> o, c |-> c]

CandleInstant(c) == c.time.date * DAY + c.time.hh * 60 + c.time.mm

F9 == <<0, 0, 0, 0, 0, 0, 0, 0, 0>>
F9us == <<1, 2, 3, 4, 5, 6, 0, 0, 0>>
F3 == <<0, 0, 0>>
F0 == <<>>

\* A fetch answers with at most MaxCandles candles.
MaxCandles == 3

\* What the provider may hold for the display-zone day that starts at instant
\* s (00:00 there).  One feed is the same on every day of an instrument:
\*   1  two samples of the 09 AM bucket, written in the two known formats,
\*      one of the 11 PM bucket, then one of the 12 AM bucket;
\*   2  a sample of the 09 AM bucket, a still-forming candle whose time has
\*      no fraction, a sample of volume 0 in the 11 PM bucket, then a sample
\*      of the 12 AM bucket;
\*   3  a complete candle whose time has no fraction, then a good one.
HistFeeds(s) ==
    << <<Candle(s + 540, F9, "true", 1000, 1, 2),
         Candle(s + 555, F3, "absent", 1010, 2, 1),
         Candle(s + 1425, F9us, "true", 500, 1, 2),
         Candle(s + 30, F9, "true", 4000, 1, 2)>>,
       <<Candle(s + 540, F9us, "true", 900, 1, 1),
         Candle(s + 570, F0, "false", 9000, 1, 2),
         Candle(s + 1410, F9, "true", 0, 1, 2),
         Candle(s + 15, F9, "true", 2000, 1, 2)>>,
       <<Candle(s + 570, F0, "true", 1000, 1, 2),
         Candle(s + 585, F9, "true", 1000, 1, 2)>> >>

\* What the provider may hold for the trailing window that starts at instant s:
\*   1  two complete candles, a still-forming one, then one without the key;
\*   2  a complete candle, a complete candle whose time has no fraction,
\*      then two good ones.
RecentFeeds(s) ==
    << <<Candle(s, F9, "true", 100, 1, 2),
         Candle(s + 15, F3, "true", 101, 2, 1),
         Candle(s + 15, F3, "false", 9999, 1, 2),
         Candle(s + 30, F9us, "absent", 201, 1, 1)>>,
       <<Candle(s, F9, "true", 90, 1, 2),
         Candle(s + 15, F0, "true", 5000, 1, 2),
         Candle(s + 30, F9, "true", 5000, 1, 2),
         Candle(s + 15, F9us, "true", 2500, 2, 1)>> >>

NumHistFeeds == Len(HistFeeds(0))
NumRecentFeeds == Len(RecentFeeds(0))

Take(cs, n) == SubSeq(cs, 1, IF Len(cs) < n THEN Len(cs) ELSE n)

\* The provider serves only the candles that start inside [from, to).
InRange(cs, from, to) ==
    SelectSeq(cs, LAMBDA c : CandleInstant(c) >= from /\ CandleInstant(c) < to)

Min(a, b) == IF a <= b THEN a ELSE b

RECURSIVE Gcd(_, _)
Gcd(a, b) == IF b = 0 THEN a ELSE Gcd(b, a % b)

\* The value n / d (d > 0), in lowest terms: two divisions with the same
\* quotient give the same value.
Frac(n, d) == [num |-> n \div Gcd(n, d), den |-> d \div Gcd(n, d)]


\* ------------------------------------------------------------------ state
\* What the clock shows when a run starts: a Monday 04:45 UTC (10:15 in the
\* display zone, so the trailing window covers the 09 AM and the 10 AM
\* bucket) and a Thursday 18:29 UTC (23:59 in the display zone, the last
\* minute of the day there).
Clocks == {70 * DAY + 4 * 60 + 45, 73 * DAY + 18 * 60 + 29}

\* The clock advances by at most MaxTicks minutes during a run.
MaxTicks == 1

VARIABLES
    now,                     \* what the last datetime.now() read, minutes
    started,                 \* what the clock showed when the run started
    now_utc,                 \* the local now_utc of the function running
    answer,                  \* "None" when fetch_candles returned None
    exc,                     \* the exception that left the run
    pc,                      \* where the run is
    inst,                    \* index into SELECTED_INSTRUMENTS of the for loop
    today_ist, days_back, trading_days_collected, bucket_volumes,
    scanned,                 \* fetch_candles calls made by the current walk
    nonempty,                \* of which answered with at least one candle
    win,                     \* [from, to) of the last fetch_candles request
    candles,                 \* the last fetch_candles result
    bucket_avg,              \* the baseline map of the current instrument
    ci,                      \* position of the detector's for loop in candles
    spike_alerts, all_spikes,
    hist, recent,            \* the provider's feeds of this run
    alert_calls,             \* calls of send_telegram_alert
    delivery,                \* what the last send_telegram_alert call did
    probe                    \* two display-zone datetimes and their buckets

vars == <<now, started, now_utc, answer, exc, pc, inst, today_ist, days_back, trading_days_collected,
          bucket_volumes, scanned, nonempty, win, candles, bucket_avg, ci,
          spike_alerts, all_spikes, hist, recent, alert_calls, delivery, probe>>

EmptyMap == [b \in {} |-> <<>>]

\* The feed of the instrument at index i: the instruments of a run take
\* consecutive feeds.
HistFeedOf(i, s) == HistFeeds(s)[((hist + i - 2) % NumHistFeeds) + 1]

\* datetime.now(): every call reads the clock again, which shows t or later
LaterReads(t) == t..(started + MaxTicks)

\* from_time = min(from_time, now_utc); to_time = min(to_time, now_utc), for
\* the now_utc that fetch_candles reads itself
FetchWindow(from_time, to_time, t) ==
    [from |-> Min(from_time, t), to |-> Min(to_time, t)]

\* What a call of fetch_candles can do.  A transport error, a non-200
\* status and a 200 answer without the key "candles" return []; a 200
\* answer with candles returns those of the feed that start inside the
\* window; "candles": null returns None; resp.json() stands outside the
\* try, so a 200 body that is not JSON leaves the function with a
\* ValueError and one that is a JSON list with an AttributeError.
fetch_candles(from_time, to_time, feed, t) ==
    LET w == FetchWindow(from_time, to_time, t)
    IN  {[raises |-> "no", value |-> "list", cs |-> <<>>],
         [raises |-> "no", value |-> "list",
          cs |-> Take(InRange(feed, w.from, w.to), MaxCandles)],
         [raises |-> "no", value |-> "None", cs |-> <<>>],
         [raises |-> "ValueError_json", value |-> "list", cs |-> <<>>],
         [raises |-> "AttributeError_get", value |-> "list", cs |-> <<>>]}

\* ----------------------------------------------- compute_bucket_averages
\* bucket_volumes[bucket].append(volume) on a defaultdict(list)
AppendSample(bv, bucket, volume) ==
    IF bucket \in DOMAIN bv
    THEN [bv EXCEPT ![bucket] = Append(@, volume)]
    ELSE bv @@ (bucket :> <<volume>>)

RECURSIVE Accumulate(_, _, _)
\* the for loop over a day's candles, from position i; ok = FALSE when
\* strptime raised
Accumulate(bv, cs, i) ==
    IF i > Len(cs) THEN [ok |-> TRUE, bv |-> bv]
    ELSE IF ~IsComplete(cs[i]) THEN Accumulate(bv, cs, i + 1)
    ELSE LET p == ParseTime(cs[i].time)
         IN  IF ~p.ok THEN [ok |-> FALSE, bv |-> bv]
             ELSE Accumulate(
                    AppendSample(bv, get_time_bucket(ToIST(p.dt)), cs[i].volume),
                    cs, i + 1)

RECURSIVE Sum(_)
Sum(vs) == IF vs = <<>> THEN 0 ELSE Head(vs) + Sum(Tail(vs))

\* {b: sum(vs) / len(vs) for b, vs in bucket_volumes.items() if vs}
BucketAverages(bv) ==
    [b \in {x \in DOMAIN bv : Len(bv[x]) > 0} |->
        Frac(Sum(bv[b]), Len(bv[b]))]

\* A faulty variant of FirstDaysBack: the walk starts at today.
FirstDaysBackToday == 1 - 1

\* days_back = 1: the walk starts at yesterday
FirstDaysBack == 1

\* A faulty variant of WalkCondition: no cap on the calendar days.
WalkConditionNoCap == trading_days_collected < TRADING_DAYS_FOR_AVERAGE

\* while trading_days_collected < TRADING_DAYS_FOR_AVERAGE and days_back < max_lookback
WalkCondition ==
    /\ trading_days_collected < TRADING_DAYS_FOR_AVERAGE
    /\ days_back < max_lookback

\* if candles:
CountsAsTradingDay(cs) == cs # <<>>

\* The locals of compute_bucket_averages before it is called and after it
\* has returned.
NoWalkLocals ==
    /\ today_ist = 0
    /\ now_utc = 0
    /\ answer = "list"
    /\ days_back = 0
    /\ trading_days_collected = 0
    /\ bucket_volumes = EmptyMap
    /\ scanned = 0
    /\ nonempty = 0
    /\ win = [from |-> 0, to |-> 0]
    /\ candles = <<>>

WalkLocalsGone ==
    /\ today_ist' = 0
    /\ now_utc' = 0
    /\ answer' = "list"
    /\ days_back' = 0
    /\ trading_days_collected' = 0
    /\ bucket_volumes' = EmptyMap
    /\ scanned' = 0
    /\ nonempty' = 0
    /\ win' = [from |-> 0, to |-> 0]
    /\ candles' = <<>>

\* for name in SELECTED_INSTRUMENTS: check_recent_spikes(name, code), which
\* starts with compute_bucket_averages(code)
\* today_ist = datetime.now(IST).date(); now_utc = datetime.now(UTC): two
\* reads of the clock
EnterInstrument ==
    /\ pc = "run"
    /\ inst <= Len(SELECTED_INSTRUMENTS)
    /\ bucket_volumes' = EmptyMap
    /\ \E t1 \in LaterReads(now) : \E t2 \in LaterReads(t1) :
         /\ today_ist' = (t1 + IST_OFFSET) \div DAY
         /\ now_utc' = t2
         /\ now' = t2
    /\ trading_days_collected' = 0
    /\ days_back' = FirstDaysBack
    /\ scanned' = 0
    /\ nonempty' = 0
    /\ pc' = "walk"
    /\ UNCHANGED <<probe, started, answer, exc, inst, win, candles, bucket_avg,
                   ci, spike_alerts, all_spikes, hist, recent, alert_calls,
                   delivery>>

\* a weekend day: days_back += 1; continue
WalkWeekend ==
    /\ pc = "walk"
    /\ WalkCondition
    /\ SKIP_WEEKENDS /\ is_weekend(today_ist - days_back)
    /\ days_back' = days_back + 1
    /\ UNCHANGED <<probe, now, started, now_utc, answer, exc, pc, inst,
                   today_ist, trading_days_collected, bucket_volumes, scanned, nonempty, win, candles, bucket_avg,
                   ci, spike_alerts, all_spikes, hist, recent, alert_calls, delivery>>

\* a candidate day: fetch it, count it and accumulate its complete candles;
\* an exception of fetch_candles or of strptime leaves the function
WalkDay ==
    /\ pc = "walk"
    /\ WalkCondition
    /\ ~(SKIP_WEEKENDS /\ is_weekend(today_ist - days_back))
    /\ LET day_ist == today_ist - days_back
           start_utc == day_ist * DAY - IST_OFFSET
           end_utc == Min((day_ist + 1) * DAY - IST_OFFSET, now_utc)
       IN  \E t \in LaterReads(now) :
           \E r \in fetch_candles(start_utc, end_utc,
                                  HistFeedOf(inst, start_utc), t) :
             /\ now' = t
             /\ win' = FetchWindow(start_utc, end_utc, t)
             /\ scanned' = scanned + 1
             /\ nonempty' = nonempty + (IF r.cs # <<>> THEN 1 ELSE 0)
             /\ IF r.raises # "no"
                THEN /\ pc' = "raised"
                     /\ exc' = r.raises
                     /\ UNCHANGED <<candles, answer, trading_days_collected,
                                    bucket_volumes, days_back>>
                ELSE /\ candles' = r.cs
                     /\ answer' = r.value
                     /\ IF CountsAsTradingDay(r.cs)
                        THEN LET a == Accumulate(bucket_volumes, r.cs, 1)
                             IN  /\ trading_days_collected' = trading_days_collected + 1
                                 /\ bucket_volumes' = a.bv
                                 /\ IF a.ok
                                    THEN /\ pc' = "walk"
                                         /\ days_back' = days_back + 1
                                         /\ exc' = exc
                                    ELSE /\ pc' = "raised"
                                         /\ days_back' = days_back
                                         /\ exc' = "ValueError_strptime"
                        ELSE /\ UNCHANGED <<trading_days_collected,
                                            bucket_volumes, pc, exc>>
                             /\ days_back' = days_back + 1
    /\ UNCHANGED <<probe, started, now_utc, inst, today_ist, bucket_avg, ci,
                   spike_alerts, all_spikes, hist, recent, alert_calls, delivery>>

\* the loop ends: return the averages; check_recent_spikes goes on
WalkReturn ==
    /\ pc = "walk"
    /\ ~WalkCondition
    /\ bucket_avg' = BucketAverages(bucket_volumes)
    /\ pc' = "recent"
    /\ WalkLocalsGone
    /\ UNCHANGED <<probe, now, started, exc, inst, ci, spike_alerts, all_spikes, hist, recent,
                   alert_calls, delivery>>


\* --------------------------------------------------- check_recent_spikes
NoAverage == Frac(0, 1)

\* bucket_avg.get(bucket, 0)
AverageOf(avgs, bucket) ==
    IF bucket \in DOMAIN avgs THEN avgs[bucket] ELSE NoAverage

\* avg * multiplier if avg else 0, with the multiplier mulNum / mulDen
ThresholdWith(avg, mulNum, mulDen) ==
    IF avg.num = 0 THEN NoAverage
    ELSE Frac(avg.num * mulNum, avg.den * mulDen)

Threshold(avg) == ThresholdWith(avg, THRESHOLD_NUM, THRESHOLD_DEN)

\* threshold > 0 and vol > threshold
IsSpike(vol, threshold) ==
    threshold.num > 0 /\ vol * threshold.den > threshold.num

\* A faulty variant of SpikeDiff: the threshold is rounded up.
SpikeDiffCeil(vol, threshold) ==
    vol - ((threshold.num + threshold.den - 1) \div threshold.den)

\* vol - int(threshold)
SpikeDiff(vol, threshold) == vol - (threshold.num \div threshold.den)

\* vol / threshold
Mult(vol, threshold) == Frac(vol * threshold.den, threshold.num)

SpikeRecord(name, c, t_ist, bucket, threshold) ==
    [instrument |-> name,
     time |-> StrfTime12(t_ist),
     date |-> t_ist.date,
     volume |-> c.volume,
     spike_diff |-> SpikeDiff(c.volume, threshold),
     multiplier |-> Mult(c.volume, threshold),
     sentiment |-> get_sentiment(c),
     bucket |-> bucket]

\* now_utc = datetime.now(UTC); from_time = now_utc - timedelta(minutes=45);
\* candles = fetch_candles(...); print(... len(candles) ...), which raises a
\* TypeError on None; if not candles: return []
FetchRecent ==
    /\ pc = "recent"
    /\ \E t1 \in LaterReads(now) : \E t2 \in LaterReads(t1) :
         LET from_time == t1 - WINDOW_MINUTES
         IN  \E r \in fetch_candles(from_time, t1,
                                    RecentFeeds(from_time)[recent], t2) :
               /\ now_utc' = t1
               /\ now' = t2
               /\ win' = FetchWindow(from_time, t1, t2)
               /\ IF r.raises # "no"
                  THEN /\ pc' = "raised"
                       /\ exc' = r.raises
                       /\ UNCHANGED <<candles, answer>>
                  ELSE /\ candles' = r.cs
                       /\ answer' = r.value
                       /\ IF r.value = "None"
                          THEN pc' = "raised" /\ exc' = "TypeError_len"
                          ELSE pc' = "detect" /\ exc' = exc
    /\ spike_alerts' = <<>>
    /\ ci' = 1
    /\ UNCHANGED <<probe, started, inst, today_ist, days_back,
                   trading_days_collected, bucket_volumes, scanned, nonempty,
                   bucket_avg, all_spikes, hist, recent, alert_calls, delivery>>

\* one iteration of for c in candles
DetectCandle ==
    /\ pc = "detect"
    /\ ci <= Len(candles)
    /\ LET c == candles[ci]
           p == ParseTime(c.time)
       IN  IF ~IsComplete(c)
           THEN /\ ci' = ci + 1
                /\ UNCHANGED <<pc, exc, spike_alerts>>
           ELSE IF ~p.ok
           THEN /\ pc' = "raised"
                /\ exc' = "ValueError_strptime"
                /\ UNCHANGED <<ci, spike_alerts>>
           ELSE LET t_ist == ToIST(p.dt)
                    bucket == get_time_bucket(t_ist)
                    threshold == Threshold(AverageOf(bucket_avg, bucket))
                IN  /\ spike_alerts' =
                          IF IsSpike(c.volume, threshold)
                          THEN Append(spike_alerts,
                                      SpikeRecord(SELECTED_INSTRUMENTS[inst], c,
                                                  t_ist, bucket, threshold))
                          ELSE spike_alerts
                    /\ ci' = ci + 1
                    /\ pc' = pc
                    /\ exc' = exc
    /\ UNCHANGED <<probe, now, started, now_utc, answer, inst, today_ist, days_back, trading_days_collected,
                   bucket_volumes, scanned, nonempty, win, candles, bucket_avg,
                   all_spikes, hist, recent, alert_calls, delivery>>

\* return spike_alerts (or [] when nothing was fetched); the run extends
\* all_spikes and takes the next instrument
DetectReturn ==
    /\ pc = "detect"
    /\ ci > Len(candles)
    /\ all_spikes' = all_spikes \o spike_alerts
    /\ inst' = inst + 1
    /\ pc' = "run"
    /\ win' = [from |-> 0, to |-> 0]
    /\ candles' = <<>>
    /\ bucket_avg' = EmptyMap
    /\ ci' = 1
    /\ spike_alerts' = <<>>
    /\ now_utc' = 0
    /\ answer' = "list"
    /\ UNCHANGED <<probe, now, started, exc, today_ist, days_back, trading_days_collected,
                   bucket_volumes, scanned, nonempty, hist, recent,
                   alert_calls, delivery>>

\* ------------------------------------------------------- run_volume_check
\* A faulty variant of HasSpikes: the alert is built for every run.
HasSpikesAlways == TRUE

\* if all_spikes:
HasSpikes == all_spikes # <<>>

\* after the for loop: build the alert when there are spikes
FinishInstruments ==
    /\ pc = "run"
    /\ inst > Len(SELECTED_INSTRUMENTS)
    /\ pc' = IF HasSpikes THEN "notify" ELSE "done"
    /\ UNCHANGED <<probe, now, started, now_utc, answer, exc, inst, today_ist, days_back, trading_days_collected,
                   bucket_volumes, scanned, nonempty, win, candles, bucket_avg,
                   ci, spike_alerts, all_spikes, hist, recent, alert_calls, delivery>>

\* What the Telegram side can do to one call.
Transports == {"no_credentials", "status_200", "status_other", "post_raises"}

\* A faulty variant of send_telegram_alert: the exception of
\* requests.post is not caught.
send_telegram_alert_uncaught(transport) ==
    IF ~ENABLE_TELEGRAM_ALERTS THEN [returns |-> TRUE, outcome |-> "disabled"]
    ELSE IF transport = "no_credentials"
    THEN [returns |-> TRUE, outcome |-> "credentials_missing"]
    ELSE IF transport = "post_raises"
    THEN [returns |-> FALSE, outcome |-> "exception"]
    ELSE IF transport = "status_other"
    THEN [returns |-> TRUE, outcome |-> "failed"]
    ELSE [returns |-> TRUE, outcome |-> "sent"]

\* send_telegram_alert(message): returns = FALSE would be an exception
\* leaving the function
send_telegram_alert(transport) ==
    IF ~ENABLE_TELEGRAM_ALERTS THEN [returns |-> TRUE, outcome |-> "disabled"]
    ELSE IF transport = "no_credentials"
    THEN [returns |-> TRUE, outcome |-> "credentials_missing"]
    ELSE IF transport = "post_raises"
    THEN [returns |-> TRUE, outcome |-> "exception"]
    ELSE IF transport = "status_other"
    THEN [returns |-> TRUE, outcome |-> "failed"]
    ELSE [returns |-> TRUE, outcome |-> "sent"]

\* the one notification of the run: send_telegram_alert(full_alert)
Notify ==
    /\ pc = "notify"
    /\ \E transport \in Transports :
         LET r == send_telegram_alert(transport)
         IN  /\ delivery' = r.outcome
             /\ pc' = IF r.returns THEN "done" ELSE "raised"
             /\ exc' = IF r.returns THEN exc ELSE "Exception_post"
    /\ alert_calls' = alert_calls + 1
    /\ UNCHANGED <<probe, now, started, now_utc, answer, inst, today_ist, days_back, trading_days_collected,
                   bucket_volumes, scanned, nonempty, win, candles, bucket_avg,
                   ci, spike_alerts, all_spikes, hist, recent>>

\* ---------------------------------------------------------- specification
NoProbe == [applied |-> FALSE]

Init ==
    /\ now \in Clocks
    /\ started = now
    /\ exc = "none"
    /\ pc = "run"
    /\ inst = 1
    /\ NoWalkLocals
    /\ bucket_avg = EmptyMap
    /\ ci = 1
    /\ spike_alerts = <<>>
    /\ all_spikes = <<>>
    /\ hist \in 1..NumHistFeeds
    /\ recent \in 1..NumRecentFeeds
    /\ alert_calls = 0
    /\ delivery = "none"
    /\ probe = NoProbe

Next ==
    \/ EnterInstrument
    \/ WalkWeekend
    \/ WalkDay
    \/ WalkReturn
    \/ FetchRecent
    \/ DetectCandle
    \/ DetectReturn
    \/ FinishInstruments
    \/ Notify

Spec == Init /\ [][Next]_vars

\* ------------------------------------------- get_time_bucket on its own
\* Display-zone datetimes on two dates, at the hours around midnight and
\* noon, in both halves of the hour.
ProbeTimes ==
    [date : {70, 73}, hour : {0, 9, 11, 12, 23}, minute : {0, 15, 59},
     second : {0, 30}, microsecond : {0, 123456}]

InitBucket ==
    /\ now = 70 * DAY
    /\ started = now
    /\ exc = "none"
    /\ pc = "probe"
    /\ inst = 1
    /\ NoWalkLocals
    /\ bucket_avg = EmptyMap
    /\ ci = 1
    /\ spike_alerts = <<>>
    /\ all_spikes = <<>>
    /\ hist = 1
    /\ recent = 1
    /\ alert_calls = 0
    /\ delivery = "none"
    /\ \E t1 \in ProbeTimes, t2 \in ProbeTimes :
         probe = [applied |-> FALSE, t1 |-> t1, t2 |-> t2]

ApplyBucket ==
    /\ pc = "probe"
    /\ ~probe.applied
    /\ LET b1 == get_time_bucket(probe.t1)
           b2 == get_time_bucket(probe.t2)
           \* bucket_volumes[bucket].append(volume) for a sample at each
           bv == AppendSample(AppendSample(EmptyMap, b1, 1000), b2, 3000)
       IN  probe' = [applied |-> TRUE, t1 |-> probe.t1, t2 |-> probe.t2,
                     b1 |-> b1, b2 |-> b2,
                     volumes |-> bv, averages |-> BucketAverages(bv)]
    /\ UNCHANGED <<now, started, now_utc, answer, exc, pc, inst, today_ist,
                   days_back, trading_days_collected, bucket_volumes, scanned,
                   nonempty, win, candles, bucket_avg, ci, spike_alerts,
                   all_spikes, hist, recent, alert_calls, delivery>>

NextBucket == ApplyBucket

SpecBucket == InitBucket /\ [][NextBucket]_vars


\* ------------------------------------------------------------- properties
\* display-zone date of a candle, read off its time fields
CandleDateIST(c) == (CandleInstant(c) + IST_OFFSET) \div DAY

RECURSIVE SumOver(_, _)
\* sum of f over the elements of the finite set S
SumOver(S, f) ==
    IF S = {} THEN 0
    ELSE LET x == CHOOSE y \in S : TRUE IN f[x] + SumOver(S \ {x}, f)

\* number of samples held in a bucket map
NumSamples(bv) == SumOver(DOMAIN bv, [b \in DOMAIN bv |-> Len(bv[b])])

\* sum of the samples held in a bucket map
SumSamples(bv) == SumOver(DOMAIN bv, [b \in DOMAIN bv |-> Sum(bv[b])])

\* the candles of cs whose complete flag is not false
NotFalse(cs) == SelectSeq(cs, LAMBDA c : c.complete # "false")

RECURSIVE SumVolumes(_)
SumVolumes(cs) == IF cs = <<>> THEN 0 ELSE Head(cs).volume + SumVolumes(Tail(cs))

\* C1: the baseline walk terminates: while it runs days_back stays within
\* 1..max_lookback, fewer than max_lookback calendar days have been scanned
\* and a step of the walk is possible; every iteration (weekend or not)
\* raises days_back by one, so the walk is left after fewer than
\* max_lookback iterations, also when every answer is empty; and when it
\* returns it returns the averages of what it accumulated.
C1_WalkTerminates ==
    /\ [](pc = "walk" =>
            /\ days_back \in 1..max_lookback
            /\ days_back - 1 < max_lookback
            /\ scanned <= days_back - 1
            /\ ENABLED (WalkWeekend \/ WalkDay \/ WalkReturn))
    /\ [][pc = "walk" /\ pc' = "walk" => days_back' = days_back + 1]_vars
    /\ [][pc = "walk" /\ pc' = "recent" =>
            /\ bucket_avg' = BucketAverages(bucket_volumes)
            /\ \A b \in DOMAIN bucket_avg' :
                 bucket_avg'[b].num * Len(bucket_volumes[b])
                    = Sum(bucket_volumes[b]) * bucket_avg'[b].den]_vars

\* C1 witness: the provider answered nothing for every day and the walk
\* stands at the cap with nothing collected, about to return.
C1_Witness ==
    /\ pc = "walk"
    /\ days_back = max_lookback
    /\ scanned > 0
    /\ nonempty = 0
    /\ bucket_volumes = EmptyMap

\* C2: once check_recent_spikes is over, every complete candle of the
\* trailing window whose time can be read has a record in spike_alerts
\* exactly when the threshold of its bucket (its average times
\* THRESHOLD_MULTIPLIER, 0 without an average) is positive and its volume is
\* strictly above it.
C2_SpikeIffAboveThreshold ==
    (/\ pc \in {"detect", "raised"}
     /\ days_back = 0
     /\ (pc = "detect" => ci > Len(candles)))
    => \A i \in 1..Len(candles) :
         LET c == candles[i]
             p == ParseTime(c.time)
         IN  (c.complete # "false" /\ p.ok) =>
               LET t_ist == ToIST(p.dt)
                   bucket == get_time_bucket(t_ist)
                   avg == IF bucket \in DOMAIN bucket_avg THEN bucket_avg[bucket]
                          ELSE [num |-> 0, den |-> 1]
                   above == /\ avg.num * THRESHOLD_NUM > 0
                            /\ c.volume * avg.den * THRESHOLD_DEN
                                 > avg.num * THRESHOLD_NUM
               IN  above <=> \E j \in 1..Len(spike_alerts) :
                               /\ spike_alerts[j].volume = c.volume
                               /\ spike_alerts[j].date = t_ist.date
                               /\ spike_alerts[j].time = StrfTime12(t_ist)
                               /\ spike_alerts[j].bucket = bucket

\* C3: a candle whose time matches neither format is skipped and the run
\* goes on: the ValueError of strptime never leaves check_recent_spikes or
\* compute_bucket_averages.
C3_NoExceptionEscapes == exc # "ValueError_strptime"

\* C4: every fetch of the walk asks for one whole display-zone day strictly
\* before today, [00:00 of the day, 00:00 of the next day), and the candles
\* it got, the only source of samples, all carry a display-zone date
\* earlier than today's.
C4_NoSampleOfToday ==
    (pc \in {"walk", "raised"} /\ scanned > 0) =>
        /\ \E d \in 1..max_lookback :
             /\ win.from = (today_ist - d) * DAY - IST_OFFSET
             /\ win.to = (today_ist - d + 1) * DAY - IST_OFFSET
             /\ (exc \in {"none", "ValueError_strptime"} =>
                   \A i \in 1..Len(candles) :
                     CandleDateIST(candles[i]) = today_ist - d)
        /\ win.to <= today_ist * DAY - IST_OFFSET
        /\ \A i \in 1..Len(candles) : CandleDateIST(candles[i]) < today_ist

\* C4 witness: the clock showed today's 00:00 in the display zone (18:30 UTC
\* of the day before) when the walk started, and yesterday's candles, up to
\* that instant, have just been sampled.
C4_Witness ==
    /\ pc = "walk"
    /\ days_back = 2
    /\ win.to = today_ist * DAY - IST_OFFSET
    /\ win.to = now_utc
    /\ now_utc > started
    /\ candles # <<>>
    /\ bucket_volumes # EmptyMap

\* C5: trading_days_collected is the number of fetched days for which
\* fetch_candles returned at least one candle and never exceeds
\* TRADING_DAYS_FOR_AVERAGE; no day is fetched once the quota is reached; a
\* fetch that brings no candle, for an empty answer or an error of the
\* provider, leaves the count unchanged and the walk goes on with the next
\* earlier day.
C5_TradingDayQuota ==
    /\ [](/\ trading_days_collected = nonempty
          /\ trading_days_collected <= TRADING_DAYS_FOR_AVERAGE
          /\ nonempty <= scanned)
    /\ [][pc = "walk" /\ scanned' = scanned + 1 =>
            /\ trading_days_collected < TRADING_DAYS_FOR_AVERAGE
            /\ trading_days_collected' =
                 trading_days_collected + (nonempty' - nonempty)
            /\ (nonempty' = nonempty =>
                  /\ trading_days_collected' = trading_days_collected
                  /\ pc' = "walk"
                  /\ days_back' = days_back + 1
                  /\ bucket_volumes' = bucket_volumes)]_vars

\* C6: send_telegram_alert is called at most once in a run, only after the
\* last instrument and only with spikes; a finished run has called it once
\* if it found spikes and not at all otherwise.
C6_OneAlertPerRun ==
    /\ alert_calls <= 1
    /\ (alert_calls = 1 => inst > Len(SELECTED_INSTRUMENTS) /\ all_spikes # <<>>)
    /\ (pc \in {"run", "walk", "recent", "detect", "notify"} => alert_calls = 0)
    /\ (pc = "done" => alert_calls = (IF all_spikes # <<>> THEN 1 ELSE 0))

\* C6 witness: a finished run with several spikes of several instruments
\* and one call.
C6_Witness ==
    /\ pc = "done"
    /\ alert_calls = 1
    /\ \E i, j \in 1..Len(all_spikes) :
         all_spikes[i].instrument # all_spikes[j].instrument

\* C7: whatever the delivery does, the call returns, the run finishes and
\* the spikes of the run are what they were before the call.
C7_DeliveryFailureHarmless ==
    [][pc = "notify" =>
         /\ pc' = "done"
         /\ all_spikes' = all_spikes
         /\ all_spikes' # <<>>]_vars

\* C7 witness: a finished run whose delivery raised in requests.post, with
\* its spikes.
C7_Witness ==
    /\ pc = "done"
    /\ delivery = "exception"
    /\ all_spikes # <<>>

\* C8: a day's fetch adds to the bucket map exactly the volumes of its
\* candles whose complete flag is not false (at most those when a time
\* could not be read, none when fetch_candles raised), and an iteration of
\* the detector on a candle whose flag is false appends nothing.
C8_OnlyCompleteCandles ==
    /\ [][pc = "walk" /\ scanned' = scanned + 1 =>
            IF pc' = "walk"
            THEN /\ NumSamples(bucket_volumes') - NumSamples(bucket_volumes)
                      = Len(NotFalse(candles'))
                 /\ SumSamples(bucket_volumes') - SumSamples(bucket_volumes)
                      = SumVolumes(NotFalse(candles'))
            ELSE IF exc' = "ValueError_strptime"
            THEN NumSamples(bucket_volumes') - NumSamples(bucket_volumes)
                      <= Len(NotFalse(candles'))
            ELSE bucket_volumes' = bucket_volumes]_vars
    /\ [][(/\ pc = "detect"
           /\ ci <= Len(candles)
           /\ candles[ci].complete = "false")
          => spike_alerts' = spike_alerts /\ pc' = "detect"]_vars

\* C8 witness: a day with a still-forming candle has been sampled and the
\* map holds only the day's other candle.
C8_Witness ==
    /\ pc = "walk"
    /\ scanned = 1
    /\ \E i \in 1..Len(candles) : candles[i].complete = "false"
    /\ NumSamples(bucket_volumes) = Len(candles) - 1
    /\ NumSamples(bucket_volumes) > 0

\* C9: every record of the detector carries spike_diff = volume -
\* floor(threshold) and multiplier = volume / threshold for the threshold of
\* its bucket, so spike_diff >= 1 and multiplier > 1 in every record of the
\* run; with baseline 1000 and multiplier 2.0 the threshold is 2000, volume
\* 2500 gives multiplier 1.25 and spike_diff 500, and volume 1800 no record.
C9_RecordArithmetic ==
    /\ pc \in {"detect", "raised"} =>
         \A i \in 1..Len(spike_alerts) :
           LET r == spike_alerts[i]
               avg == bucket_avg[r.bucket]
               tn == avg.num * THRESHOLD_NUM
               td == avg.den * THRESHOLD_DEN
           IN  /\ r.bucket \in DOMAIN bucket_avg
               /\ r.spike_diff = r.volume - (tn \div td)
               /\ r.multiplier.num * tn = r.volume * td * r.multiplier.den
    /\ \A i \in 1..Len(spike_alerts) :
         /\ spike_alerts[i].spike_diff >= 1
         /\ spike_alerts[i].multiplier.num > spike_alerts[i].multiplier.den
    /\ \A i \in 1..Len(all_spikes) :
         /\ all_spikes[i].spike_diff >= 1
         /\ all_spikes[i].multiplier.num > all_spikes[i].multiplier.den
    /\ LET threshold == ThresholdWith(Frac(1000, 1), 2, 1)
       IN  /\ threshold = Frac(2000, 1)
           /\ IsSpike(2500, threshold)
           /\ SpikeDiff(2500, threshold) = 500
           /\ Mult(2500, threshold) = Frac(125, 100)
           /\ ~IsSpike(1800, threshold)

\* C9 witness: a record of volume 101 over the threshold 100.5, whose
\* spike_diff is 101 - 100 = 1.
C9_Witness ==
    /\ pc = "detect"
    /\ \E i \in 1..Len(spike_alerts) :
         /\ spike_alerts[i].spike_diff = 1
         /\ bucket_avg[spike_alerts[i].bucket].den * THRESHOLD_DEN
              \notin {1, bucket_avg[spike_alerts[i].bucket].num * THRESHOLD_NUM}
         /\ (bucket_avg[spike_alerts[i].bucket].num * THRESHOLD_NUM)
              % (bucket_avg[spike_alerts[i].bucket].den * THRESHOLD_DEN) # 0

\* C10: two display-zone datetimes with the same hour and the same
\* floor(minute / BUCKET_MINUTES) get the same bucket, whatever their dates,
\* seconds and microseconds, so a sample at each lands under one key of
\* the bucket map and the baseline of that key is the mean of both.
C10_BucketIgnoresDate ==
    (/\ probe.applied
     /\ probe.t1.hour = probe.t2.hour
     /\ probe.t1.minute \div BUCKET_MINUTES = probe.t2.minute \div BUCKET_MINUTES)
    => /\ probe.b1 = probe.b2
       /\ DOMAIN probe.volumes = {probe.b1}
       /\ probe.volumes[probe.b1] = <<1000, 3000>>
       /\ probe.averages[probe.b2] = [num |-> 2000, den |-> 1]

\* C10 witness: the same bucket for two datetimes of one hour that differ in
\* date, minute, second and microsecond.
C10_Witness ==
    /\ probe.applied
    /\ probe.t1.hour = probe.t2.hour
    /\ probe.t1.date # probe.t2.date
    /\ probe.t1.minute # probe.t2.minute
    /\ probe.t1.second # probe.t2.second
    /\ probe.t1.microsecond # probe.t2.microsecond
    /\ probe.b1 = probe.b2
    /\ Len(probe.volumes[probe.b1]) = 2

====
